---------------------------- MODULE Spec2Model ----------------------------
(***************************************************************************)
(* Model of the file-path pattern engine of qordoba-cli                    *)
(* (src/qordoba/sources.py): push-pattern compilation and matching, pull   *)
(* path generation, file discovery and content-type resolution.            *)
(*                                                                         *)
(* Strings are sequences of atoms.  An atom is a single character ("a",    *)
(* "/", "."), one whole placeholder token ("<language_code>") or, in file  *)
(* names and extensions, one whole word without "." and "/" ("json").  The *)
(* characters "<" and ">" occur only inside placeholder atoms, so that an  *)
(* occurrence of a placeholder as a substring is exactly an occurrence of  *)
(* its atom.  The platform is POSIX: os.sep = "/", os.altsep = None.       *)
(***************************************************************************)
EXTENDS Integers, Sequences, FiniteSets, TLC

None == "None"

(***************************************************************************)
(* Bounds of the model.                                                    *)
(***************************************************************************)
MaxPatLen == 3
MaxMerges == 2
MaxOverrideLen == 2
MaxDirLinks == 2
MaxFileLinks == 1
MaxFindPatLen == 2
MaxWalked == 2
MaxPushed == 3

(***************************************************************************)
(* Characters.                                                             *)
(***************************************************************************)
Lowers ==
  <<"a","b","c","d","e","f","g","h","i","j","k","l","m",
    "n","o","p","q","r","s","t","u","v","w","x","y","z">>

Uppers ==
  <<"A","B","C","D","E","F","G","H","I","J","K","L","M",
    "N","O","P","Q","R","S","T","U","V","W","X","Y","Z">>

Digits == {"0","1","2","3","4","5","6","7","8","9"}

Range(s) == {s[i] : i \in DOMAIN s}

\* str.upper() on one character
UpperChar(c) ==
  IF \E i \in DOMAIN Lowers : Lowers[i] = c
  THEN Uppers[CHOOSE i \in DOMAIN Lowers : Lowers[i] = c]
  ELSE c

\* str.lower() on one character
LowerChar(c) ==
  IF \E i \in DOMAIN Uppers : Uppers[i] = c
  THEN Lowers[CHOOSE i \in DOMAIN Uppers : Uppers[i] = c]
  ELSE c

\* str.upper()
Upper(s) == [i \in DOMAIN s |-> UpperChar(s[i])]

\* str.lower()
Lower(s) == [i \in DOMAIN s |-> LowerChar(s[i])]

\* str.capitalize(): first character upper-cased, the rest lower-cased
Capitalize(s) == [i \in DOMAIN s |-> IF i = 1 THEN UpperChar(s[i]) ELSE LowerChar(s[i])]

\* the characters matched by the regular expression class \w
IsWord(c) == c \in Range(Lowers) \cup Range(Uppers) \cup Digits \cup {"_"}

\* str.replace(tok, val, 1): only the first occurrence is replaced
Replace_first(s, tok, val) ==
  LET i == IF \E k \in DOMAIN s : s[k] = tok
           THEN CHOOSE k \in DOMAIN s : s[k] = tok /\ \A j \in 1..(k - 1) : s[j] # tok
           ELSE 0
  IN  IF i = 0 THEN s
      ELSE SubSeq(s, 1, i - 1) \o val \o SubSeq(s, i + 1, Len(s))

\* str.replace(tok, val) for a one-atom token: every occurrence is replaced
RECURSIVE Replace(_, _, _)
Replace(s, tok, val) ==
  IF s = <<>> THEN <<>>
  ELSE (IF Head(s) = tok THEN val ELSE <<Head(s)>>) \o Replace(Tail(s), tok, val)

\* str.endswith(tok) for a one-atom token
EndsWith(s, tok) == Len(s) > 0 /\ s[Len(s)] = tok

\* str.rfind(c): last index of c, 0 when absent (Python: -1; indices here are 1-based)
RFind(s, c) ==
  IF \E i \in DOMAIN s : s[i] = c
  THEN CHOOSE i \in DOMAIN s : s[i] = c /\ \A j \in DOMAIN s : s[j] = c => j <= i
  ELSE 0

\* str.find(c): first index of c, 0 when absent
Find(s, c) ==
  IF \E i \in DOMAIN s : s[i] = c
  THEN CHOOSE i \in DOMAIN s : s[i] = c /\ \A j \in DOMAIN s : s[j] = c => j >= i
  ELSE 0

\* str.split(sep) for a one-character separator: the list of pieces
RECURSIVE Split(_, _)
Split(s, sep) ==
  LET i == Find(s, sep)
  IN  IF i = 0 THEN <<s>>
      ELSE <<SubSeq(s, 1, i - 1)>> \o Split(SubSeq(s, i + 1, Len(s)), sep)

\* sep.join(parts)
RECURSIVE Join(_, _)
Join(parts, sep) ==
  IF parts = <<>> THEN <<>>
  ELSE IF Len(parts) = 1 THEN parts[1]
  ELSE parts[1] \o <<sep>> \o Join(Tail(parts), sep)

(***************************************************************************)
(* Placeholders (LanguagePatternVariables) and the default pattern.        *)
(***************************************************************************)
language_code == "<language_code>"
language_name == "<language_name>"
language_name_cap == "<language_name_cap>"
language_name_allcap == "<language_name_allcap>"
language_lang_code == "<language_lang_code>"
extension_var == "<extension>"

LanguagePatternVariables_all ==
  <<language_code, language_name, language_name_cap, language_name_allcap, language_lang_code>>

DEFAULT_PATTERN == <<language_code, extension_var>>

\* a validation expression built from LanguagePatternVariables.all
push_pattern_validate_regexp_all(p) ==
  \E i \in DOMAIN p : p[i] \in Range(LanguagePatternVariables_all)

\* push_pattern_validate_regexp.search(pattern)
push_pattern_validate_regexp(p) ==
  \E i \in DOMAIN p : p[i] \in {language_code, language_lang_code}

\* pull_pattern_validate_regexp.search(pattern)
pull_pattern_validate_regexp(p) ==
  \E i \in DOMAIN p : p[i] \in Range(LanguagePatternVariables_all)


(***************************************************************************)
(* os.path on POSIX.  A path is a string; the process state it reads is    *)
(* the current working directory cwd (an absolute path).                   *)
(***************************************************************************)
Sep == "/"
CurDirName == <<".">>
ParDirName == <<".", ".">>

\* os.path.isabs
IsAbs(p) == Len(p) > 0 /\ p[1] = Sep

\* os.path.join(a, b)
PathJoin(a, b) ==
  IF IsAbs(b) THEN b
  ELSE IF a = <<>> \/ EndsWith(a, Sep) THEN a \o b
  ELSE a \o <<Sep>> \o b

\* the component loop of os.path.normpath for an absolute path:
\* empty and "." components are dropped, ".." pops the last component
RECURSIVE NormComps(_, _)
NormComps(comps, acc) ==
  IF comps = <<>> THEN acc
  ELSE LET c == Head(comps)
       IN  IF c = <<>> \/ c = CurDirName THEN NormComps(Tail(comps), acc)
           ELSE IF c = ParDirName
                THEN NormComps(Tail(comps),
                               IF acc = <<>> THEN acc ELSE SubSeq(acc, 1, Len(acc) - 1))
                ELSE NormComps(Tail(comps), Append(acc, c))

\* [x for x in os.path.abspath(p).split(sep) if x]
AbsList(p, wd) == NormComps(Split(PathJoin(wd, p), Sep), <<>>)

\* len(os.path.commonprefix([a, b])) for two component lists
RECURSIVE CommonPrefixLen(_, _)
CommonPrefixLen(a, b) ==
  IF a = <<>> \/ b = <<>> \/ Head(a) # Head(b) THEN 0
  ELSE 1 + CommonPrefixLen(Tail(a), Tail(b))

\* os.path.relpath(path, start); path is not empty
RelPath(path, start, wd) ==
  LET start_list == AbsList(start, wd)
      path_list  == AbsList(path, wd)
      i          == CommonPrefixLen(start_list, path_list)
      rel_list   == [k \in 1..(Len(start_list) - i) |-> ParDirName]
                      \o SubSeq(path_list, i + 1, Len(path_list))
  IN  IF rel_list = <<>> THEN CurDirName ELSE Join(rel_list, Sep)

\* os.path.basename
BaseName(p) == SubSeq(p, RFind(p, Sep) + 1, Len(p))

\* an extension taken without its dot
SplitExt_nodot(p) ==
  LET sepIndex == RFind(p, Sep)
      dotIndex == RFind(p, ".")
  IN  IF dotIndex > sepIndex
         /\ \E k \in (sepIndex + 1)..(dotIndex - 1) : p[k] # "."
      THEN SubSeq(p, dotIndex + 1, Len(p))
      ELSE <<>>

\* os.path.splitext(p)[1]: from the last dot of the base name on, leading
\* dots of the base name not counted; empty when there is none
SplitExt(p) ==
  LET sepIndex == RFind(p, Sep)
      dotIndex == RFind(p, ".")
  IN  IF dotIndex > sepIndex
         /\ \E k \in (sepIndex + 1)..(dotIndex - 1) : p[k] # "."
      THEN SubSeq(p, dotIndex, Len(p))
      ELSE <<>>

(***************************************************************************)
(* Languages (qordoba.languages).                                          *)
(***************************************************************************)
\* Language: lang is the part of code before its first dash
Language(code, name) ==
  [kind |-> "Language", code |-> code, name |-> name, lang |-> Split(code, "-")[1]]

LANGUAGE_EN ==
  Language(<<"e","n","-","u","s">>,
           <<"E","n","g","l","i","s","h"," ","-"," ",
             "U","n","i","t","e","d"," ","S","t","a","t","e","s">>)

LANGUAGE_FR ==
  Language(<<"f","r","-","f","r">>,
           <<"F","r","e","n","c","h"," ","-"," ","F","r","a","n","c","e">>)

\* the languages loaded by init_language_storage
Registry == {LANGUAGE_EN, LANGUAGE_FR}

NoLanguage == [kind |-> "None"]
PyStr(s) == [kind |-> "str", s |-> s]
Raise(exc) == [kind |-> "raise", exc |-> exc]

\* the identifiers under which the registry knows a language
Identifiers(l) == {Lower(l.code), Lower(l.name), Lower(l.lang)}

\* normalize_language(x): a Language is returned as it is, a string is
\* looked up in the registry, anything else is not found
normalize_language(x) ==
  IF x.kind = "Language" THEN x
  ELSE IF x.kind = "str" /\ \E l \in Registry : Lower(x.s) \in Identifiers(l)
       THEN CHOOSE l \in Registry : Lower(x.s) \in Identifiers(l)
       ELSE Raise("LanguageNotFound")

(***************************************************************************)
(* TranslationFile and validate_path.                                      *)
(***************************************************************************)
TranslationFile(path, lang, dir) ==
  [kind |-> "TranslationFile", relpath |-> path, name |-> BaseName(path),
   lang |-> lang, curdir |-> dir, fullpath |-> PathJoin(dir, path)]

NoExtension == <<None>>

\* TranslationFile.extension with rsplit: what follows the last dot of the name
extension_lastdot(f) ==
  LET i == RFind(f.name, ".")
  IN  IF i = 0 THEN NoExtension ELSE SubSeq(f.name, i + 1, Len(f.name))

\* TranslationFile.extension: name.split('.', 1)[1], None when name has no dot
extension(f) ==
  LET i == Find(f.name, ".")
  IN  IF i = 0 THEN NoExtension ELSE SubSeq(f.name, i + 1, Len(f.name))

\* TranslationFile.path_parts
path_parts(f) == Split(f.relpath, Sep)

\* TranslationFile.unique_name: '-'.join(self.path_parts).lower()
unique_name(f) == Lower(Join(path_parts(f), "-"))

\* validate_path(curdir, path, lang) for a path given as a string
validate_path(dir, path, lang, wd) ==
  LET l == normalize_language(lang)
  IN  IF l.kind = "raise" THEN l
      ELSE IF path = <<>> THEN Raise("ValueError")
      ELSE TranslationFile(RelPath(path, dir, wd), l, dir)

(***************************************************************************)
(* Push patterns: validate_push_pattern and the compiled matcher.          *)
(* A regular expression is a sequence of items: an escaped literal atom,   *)
(* or one of the two named groups.                                         *)
(***************************************************************************)
Lit(c) == [op |-> "lit", arg |-> c]
Group(name) == [op |-> "group", arg |-> name]

\* re.escape: every atom becomes a literal of the expression
ReEscape(s) == [i \in DOMAIN s |-> Lit(s[i])]

\* to_posix: os.altsep is None
to_posix(filepath) == filepath

\* number of items of the expression that define the named group
GroupCount(re, name) == Cardinality({i \in DOMAIN re : re[i] = Group(name)})

\* validate_push_pattern(pattern); re.compile refuses an expression that
\* defines a group name twice
validate_push_pattern(p) ==
  IF ~push_pattern_validate_regexp(p) THEN Raise("PatternNotValid")
  ELSE LET pattern_re     == ReEscape(to_posix(p))
           code_re        == Replace(pattern_re, Lit(language_code),
                                     <<Group("language_code")>>)
           expression_re  == Replace(code_re, Lit(language_lang_code),
                                     <<Group("language_lang_code")>>)
       IN  IF GroupCount(expression_re, "language_code") > 1
              \/ GroupCount(expression_re, "language_lang_code") > 1
           THEN Raise("re.error")
           ELSE [kind |-> "regex", re |-> expression_re]

NoMatch == [matched |-> FALSE, groupdict |-> <<>>]

\* [\w]{2}_[\w]{2} at position j of path
CodeShapeAt_underscore(path, j) ==
  /\ j + 4 <= Len(path)
  /\ IsWord(path[j]) /\ IsWord(path[j + 1])
  /\ path[j + 2] = "_"
  /\ IsWord(path[j + 3]) /\ IsWord(path[j + 4])

\* [\w]{2}\-[\w]{2} at position j of path
CodeShapeAt(path, j) ==
  /\ j + 4 <= Len(path)
  /\ IsWord(path[j]) /\ IsWord(path[j + 1])
  /\ path[j + 2] = "-"
  /\ IsWord(path[j + 3]) /\ IsWord(path[j + 4])

\* length of the longest run of \w characters of path from position j
RECURSIVE WordRun(_, _)
WordRun(path, j) ==
  IF j <= Len(path) /\ IsWord(path[j]) THEN 1 + WordRun(path, j + 1) ELSE 0

\* '$' without re.MULTILINE: the end of the string, or the position before
\* a newline that is its last character
AtEnd(path, j) ==
  \/ j = Len(path) + 1
  \/ j = Len(path) /\ path[j] = "\n"

\* the backtracking matcher of '^' + expression + '$' with re.IGNORECASE:
\* items k.. of re against path from position j; [\w]* is greedy
RECURSIVE MatchFrom(_, _, _, _)
RECURSIVE MatchStar(_, _, _, _, _)
MatchFrom(re, k, path, j) ==
  IF k > Len(re)
  THEN IF AtEnd(path, j) THEN [matched |-> TRUE, groupdict |-> <<>>] ELSE NoMatch
  ELSE IF re[k] = Group("language_code")
  THEN IF CodeShapeAt(path, j)
       THEN LET r == MatchFrom(re, k + 1, path, j + 5)
            IN  IF r.matched
                THEN [matched |-> TRUE,
                      groupdict |-> ("language_code" :> SubSeq(path, j, j + 4)) @@ r.groupdict]
                ELSE NoMatch
       ELSE NoMatch
  ELSE IF re[k] = Group("language_lang_code")
  THEN MatchStar(re, k, path, j, WordRun(path, j))
  ELSE IF j <= Len(path) /\ LowerChar(path[j]) = LowerChar(re[k].arg)
       THEN MatchFrom(re, k + 1, path, j + 1)
       ELSE NoMatch

MatchStar(re, k, path, j, n) ==
  LET r == MatchFrom(re, k + 1, path, j + n)
  IN  IF r.matched
      THEN [matched |-> TRUE,
            groupdict |-> ("language_lang_code" :> SubSeq(path, j, j + n - 1)) @@ r.groupdict]
      ELSE IF n = 0 THEN NoMatch
      ELSE MatchStar(re, k, path, j, n - 1)

\* pattern.match(path)
Match(re, path) == MatchFrom(re, 1, path, 1)

(***************************************************************************)
(* Pull patterns: create_target_path_by_pattern.                           *)
(***************************************************************************)
NoPattern == <<None>>
NoName == <<None>>

PythonVersions == {2, 3}

\* the validation guarded by the truth value of the pattern instead of
\* 'is not None': the empty pattern falls through to the default pattern
create_target_path_by_pattern_truthy(dir, lang, pat, name, wd, py) ==
  IF pat # NoPattern /\ pat # <<>> /\ ~pull_pattern_validate_regexp(pat)
  THEN Raise("PatternNotValid")
  ELSE IF lang.kind # "Language" THEN Raise("AttributeError")
  ELSE
    LET p0 == IF pat = NoPattern \/ pat = <<>> THEN DEFAULT_PATTERN ELSE pat
        p1 == Replace(p0, language_code, lang.code)
        p2 == Replace(p1, language_lang_code, lang.lang)
        p3 == Replace(p2, language_name, lang.name)
        p4 == Replace(p3, language_name_cap, Capitalize(lang.name))
        p5 == Replace(p4, language_name_allcap, Upper(lang.name))
    IN  IF EndsWith(p5, extension_var)
        THEN IF name = NoName
             THEN IF py = 3 THEN Raise("TypeError")
                  ELSE validate_path(dir, Replace(p5, extension_var, <<>>), lang, wd)
             ELSE validate_path(dir, Replace(p5, extension_var, SplitExt(name)), lang, wd)
        ELSE validate_path(dir, p5, lang, wd)

\* create_target_path_by_pattern(curdir, language, pattern, source_name),
\* run with working directory wd by a Python of major version py
create_target_path_by_pattern(dir, lang, pat, name, wd, py) ==
  IF pat # NoPattern /\ ~pull_pattern_validate_regexp(pat) THEN Raise("PatternNotValid")
  ELSE IF lang.kind # "Language" THEN Raise("AttributeError")
  ELSE
    LET p0 == IF pat = NoPattern \/ pat = <<>> THEN DEFAULT_PATTERN ELSE pat
        p1 == Replace(p0, language_code, lang.code)
        p2 == Replace(p1, language_lang_code, lang.lang)
        p3 == Replace(p2, language_name, lang.name)
        p4 == Replace(p3, language_name_cap, Capitalize(lang.name))
        p5 == Replace(p4, language_name_allcap, Upper(lang.name))
    IN  IF EndsWith(p5, extension_var)
        THEN IF name = NoName
             THEN IF py = 3 THEN Raise("TypeError")
                  ELSE validate_path(dir, Replace(p5, extension_var, <<>>), lang, wd)
             ELSE validate_path(dir, Replace(p5, extension_var, SplitExt(name)), lang, wd)
        ELSE validate_path(dir, p5, lang, wd)

(***************************************************************************)
(* Content types.                                                          *)
(***************************************************************************)
ContentType(code, extensions) == [code |-> code, extensions |-> extensions]

\* the OrderedDict CONTENT_TYPE_CODES, in the order of its assignments
CONTENT_TYPE_CODES ==
  << ContentType("excel", << <<"xlsx">> >>),
     ContentType("xliff", << <<"xliff">>, <<"xlf">> >>),
     ContentType("XLIFF1.2", << <<"xliff">>, <<"xlf">> >>),
     ContentType("xmlAndroid", << <<"xml">> >>),
     ContentType("macStrings", << <<"strings">> >>),
     ContentType("PO", << <<"po">> >>),
     ContentType("propertiesJava", << <<"properties">> >>),
     ContentType("YAML", << <<"yml">>, <<"yaml">> >>),
     ContentType("YAMLi18n", << <<"yml">>, <<"yaml">> >>),
     ContentType("csv", << <<"csv">> >>),
     ContentType("JSON", << <<"json">> >>),
     ContentType("SRT", << <<"srt">> >>),
     ContentType("md", << <<"md">>, <<"text">> >>) >>

\* a derivation in which the first content type that claims an extension keeps it
RECURSIVE ExtensionIndex_first(_)
ExtensionIndex_first(items) ==
  IF items = <<>> THEN <<>>
  ELSE LET last == items[Len(items)]
           rest == ExtensionIndex_first(SubSeq(items, 1, Len(items) - 1))
       IN  rest @@ [e \in Range(last.extensions) |-> last.code]

\* {extension: k for k, extensions in items for extension in extensions}:
\* a later item overwrites the key an earlier one has set
RECURSIVE ExtensionIndex(_)
ExtensionIndex(items) ==
  IF items = <<>> THEN <<>>
  ELSE LET last == items[Len(items)]
           rest == ExtensionIndex(SubSeq(items, 1, Len(items) - 1))
       IN  [e \in Range(last.extensions) |-> last.code] @@ rest

ALLOWED_EXTENSIONS == ExtensionIndex(CONTENT_TYPE_CODES)

\* get_content_type_code(path) against the extension index
get_content_type_code(path, index) ==
  LET path_ext == extension(path)
  IN  IF path_ext \notin DOMAIN index THEN Raise("FileExtensionNotAllowed")
      ELSE [kind |-> "code", code |-> index[path_ext]]

\* add_project_file_formats(formats): the project's formats are merged into
\* the table after the built-in ones and the index is derived again
add_project_file_formats(table, formats) ==
  LET merged == table \o formats
  IN  [table |-> merged, index |-> ExtensionIndex(merged)]

(***************************************************************************)
(* State.                                                                  *)
(***************************************************************************)
VARIABLES
  pattern,      \* the pattern string of the configuration (NoPattern: absent)
  language,     \* the language argument (NoLanguage: None)
  curdir,       \* the curdir argument
  source_name,  \* the source_name argument (NoName: None)
  cwd,          \* os.getcwd() of the process
  pushResult,   \* outcome of validate_push_pattern(pattern)
  pullResult,   \* outcome of create_target_path_by_pattern(...)
  pullAgain,    \* outcome of a later call with the same arguments
  matchResult,  \* outcome of matching the generated path with the matcher
  content_type_codes,  \* the dictionary CONTENT_TYPE_CODES
  allowed_extensions,  \* the dictionary ALLOWED_EXTENSIONS
  merges,              \* number of calls of add_project_file_formats
  lastFormats,         \* the formats merged by the last of these calls
  ctFile,              \* the file of the last content-type lookup
  path_ext,            \* get_content_type_code: path.extension of that file
  ctResult,            \* outcome of the last content-type lookup
  fs,           \* the directory tree under curpath, with its symlinks
  stack,        \* os.walk: the directories still to be walked, next one first
  visited,      \* files_in_project: the set visited, of real directory paths
  listed,       \* for each real directory, how often its files were yielded
  yieldCount,   \* for each real file, how often files_in_project yielded it
  walked,       \* find_files_by_pattern: number of paths taken from the walk
  found,        \* find_files_by_pattern: the items yielded so far
  matches,      \* for each item yielded: the path matched and its groupdict
  logged,       \* find_files_by_pattern: number of warnings logged
  pages,        \* the pages of the remote project: name and local file of origin
  pushed        \* push_command: the files handled so far, with the page found

patternVars ==
  <<pattern, language, curdir, source_name, cwd, pushResult, pullResult, pullAgain,
    matchResult>>

contentVars ==
  <<content_type_codes, allowed_extensions, merges, lastFormats, ctFile, path_ext,
    ctResult>>

walkVars == <<fs, stack, visited, listed, yieldCount>>

findVars == <<walked, found, matches, logged>>

pushVars == <<pages, pushed>>

vars == <<patternVars, contentVars, walkVars, findVars, pushVars>>

Unset == [kind |-> "unset"]

(***************************************************************************)
(* Inputs of the pattern engine.                                           *)
(***************************************************************************)
PatAtoms ==
  {"a", "/", ".", language_code, language_name, language_name_cap,
   language_name_allcap, language_lang_code, extension_var}

SeqsUpTo(S, n) == UNION {[1..k -> S] : k \in 0..n}

Patterns == SeqsUpTo(PatAtoms, MaxPatLen) \cup {NoPattern}

Languages == Registry \cup {NoLanguage}

CurDirs == {<<>>, <<"/", "p">>}

Cwds == {<<"/", "p">>, <<"/", "q">>}

SourceNames == {NoName, <<"s">>, <<"s", ".", "x", ".", "y">>}

(***************************************************************************)
(* The directory tree.  Directories and files are named by their real      *)
(* paths.  A directory other than the root lies in its parent directory or *)
(* outside the tree under the root; a directory may hold symlinks to       *)
(* directories (dirlinks: <<holder, target>>) and to files (filelinks:     *)
(* <<holder, target>>).                                                    *)
(***************************************************************************)
Dirs == {"root", "a", "b"}

Files == {"f", "g"}

Outside == "outside"

\* the parent of a is the root or outside, the parent of b is the root, a or outside
Parents ==
  {par \in [Dirs \ {"root"} -> Dirs \cup {Outside}] :
     par["a"] \in {"root", Outside} /\ par["b"] # "b"}

FileSystems ==
  [parent    : Parents,
   dirlinks  : {L \in SUBSET (Dirs \X Dirs) : Cardinality(L) <= MaxDirLinks},
   fileloc   : [Files -> Dirs],
   filelinks : {L \in SUBSET (Dirs \X Files) : Cardinality(L) <= MaxFileLinks}]

\* the directory entries of d that os.walk lists as directories
\* (followlinks=True): its subdirectories and its symlinks to directories
DirEntries(tree, d) ==
  {[via |-> "child", to |-> c] : c \in {c \in Dirs \ {"root"} : tree.parent[c] = d}}
    \cup {[via |-> "link", to |-> l[2]] : l \in {l \in tree.dirlinks : l[1] = d}}

\* a listing that leaves out the symlinks to files
FileEntries_nolinks(tree, d) ==
  {[via |-> "file", to |-> f] : f \in {f \in Files : tree.fileloc[f] = d}}

\* the directory entries of d that os.walk lists as files: its files and its
\* symlinks to files
FileEntries(tree, d) ==
  {[via |-> "file", to |-> f] : f \in {f \in Files : tree.fileloc[f] = d}}
    \cup {[via |-> "link", to |-> l[2]] : l \in {l \in tree.filelinks : l[1] = d}}

\* the orders in which a listing may come
Orderings(S) ==
  {o \in [1..Cardinality(S) -> S] : \A i, j \in 1..Cardinality(S) : i # j => o[i] # o[j]}

\* a check that never finds the directory
AlreadyVisited_never(root_realpath, seen) == FALSE

\* root_realpath in visited
AlreadyVisited(root_realpath, seen) == root_realpath \in seen

\* the state of a process that walks no tree
WalkIdle ==
  /\ fs = [parent |-> [d \in Dirs \ {"root"} |-> "root"], dirlinks |-> {},
           fileloc |-> [f \in Files |-> "root"], filelinks |-> {}]
  /\ stack = <<>>
  /\ visited = {}
  /\ listed = [d \in Dirs |-> 0]
  /\ yieldCount = [f \in Files |-> 0]

\* the state of a process that searches no files
FindIdle ==
  /\ walked = 0
  /\ found = <<>>
  /\ matches = <<>>
  /\ logged = 0

\* the content-type state of a process that has only imported the module
ContentIdle ==
  /\ content_type_codes = CONTENT_TYPE_CODES
  /\ allowed_extensions = ALLOWED_EXTENSIONS
  /\ merges = 0
  /\ lastFormats = <<>>
  /\ ctFile = <<>>
  /\ path_ext = NoExtension
  /\ ctResult = Unset

\* the state of a process that pushes no files
PushIdle ==
  /\ pages = {}
  /\ pushed = <<>>

\* the pattern state of a process that runs no pattern function
PatternIdle ==
  /\ pattern = NoPattern
  /\ language = NoLanguage
  /\ curdir = <<>>
  /\ source_name = NoName
  /\ cwd = <<"/", "p">>
  /\ pushResult = Unset
  /\ pullResult = Unset
  /\ pullAgain = Unset
  /\ matchResult = Unset

(***************************************************************************)
(* The pattern engine: one call of each function on the drawn inputs.      *)
(***************************************************************************)
InitPattern ==
  /\ pattern \in Patterns
  /\ language \in Languages
  /\ curdir \in CurDirs
  /\ source_name \in SourceNames
  /\ cwd \in Cwds
  /\ pushResult = Unset
  /\ pullResult = Unset
  /\ pullAgain = Unset
  /\ matchResult = Unset
  /\ ContentIdle
  /\ WalkIdle
  /\ FindIdle
  /\ PushIdle

\* push_command: pattern = validate_push_pattern(pattern)
ValidatePushPattern ==
  /\ pushResult = Unset
  /\ pattern # NoPattern
  /\ pushResult' = validate_push_pattern(pattern)
  /\ UNCHANGED <<pattern, language, curdir, source_name, cwd, pullResult, pullAgain,
                 matchResult>>
  /\ UNCHANGED <<contentVars, walkVars, findVars, pushVars>>

\* pull_command: dest_path = create_target_path_by_pattern(curdir, language, ...)
CreateTargetPath ==
  /\ pullResult = Unset
  /\ \E py \in PythonVersions :
       pullResult' = create_target_path_by_pattern(curdir, language, pattern,
                                                   source_name, cwd, py)
  /\ UNCHANGED <<pattern, language, curdir, source_name, cwd, pushResult, pullAgain,
                 matchResult>>
  /\ UNCHANGED <<contentVars, walkVars, findVars, pushVars>>

\* the compiled matcher applied to the generated path
MatchGenerated ==
  /\ matchResult = Unset
  /\ pushResult.kind = "regex"
  /\ pullResult.kind = "TranslationFile"
  /\ matchResult' = Match(pushResult.re, pullResult.relpath)
  /\ UNCHANGED <<pattern, language, curdir, source_name, cwd, pushResult, pullResult,
                 pullAgain>>
  /\ UNCHANGED <<contentVars, walkVars, findVars, pushVars>>

NextPattern == ValidatePushPattern \/ CreateTargetPath \/ MatchGenerated

SpecPattern == InitPattern /\ [][NextPattern]_vars

(***************************************************************************)
(* Repeated generation: create_target_path_by_pattern is called again with *)
(* the same arguments after the process has changed its working directory. *)
(***************************************************************************)
PurePatterns ==
  { NoPattern,
    <<language_code>>,
    <<"a", "/", language_lang_code, extension_var>>,
    <<"/", "a", "/", language_code>>,
    <<".", "/", language_name_allcap>> }

InitPure ==
  /\ pattern \in PurePatterns
  /\ language \in Registry
  /\ curdir \in CurDirs
  /\ source_name \in SourceNames
  /\ cwd \in Cwds
  /\ pushResult = Unset
  /\ pullResult = Unset
  /\ pullAgain = Unset
  /\ matchResult = Unset
  /\ ContentIdle
  /\ WalkIdle
  /\ FindIdle
  /\ PushIdle

\* os.chdir
ChangeDir ==
  /\ \E d \in Cwds : d # cwd /\ cwd' = d
  /\ UNCHANGED <<pattern, language, curdir, source_name, pushResult, pullResult, pullAgain,
                 matchResult>>
  /\ UNCHANGED <<contentVars, walkVars, findVars, pushVars>>

\* a second call with the arguments of the first
CreateTargetPathAgain ==
  /\ pullResult # Unset
  /\ pullAgain = Unset
  /\ \E py \in PythonVersions :
       pullAgain' = create_target_path_by_pattern(curdir, language, pattern,
                                                  source_name, cwd, py)
  /\ UNCHANGED <<pattern, language, curdir, source_name, cwd, pushResult, pullResult,
                 matchResult>>
  /\ UNCHANGED <<contentVars, walkVars, findVars, pushVars>>

NextPure == CreateTargetPath \/ ChangeDir \/ CreateTargetPathAgain

SpecPure == InitPure /\ [][NextPure]_vars

(***************************************************************************)
(* push_command: one iteration of its loop over the files per step.  The   *)
(* remote project keeps a page for every file uploaded, under the name the *)
(* upload gave it.                                                         *)
(***************************************************************************)
\* the local files of the project, relative to its root
PushFiles ==
  { <<"a", "/", "b">>, <<"a", "-", "b">>, <<"A", "/", "b">>, <<"b">>, <<"a", "/", "c">> }

NoPage == [kind |-> "None"]

\* page_search(search_string=file_name, limit=1).get_one(): a page of that
\* name, None when there is none
PageSearch(file_name) ==
  IF \E pg \in pages : pg.name = file_name
  THEN {pg \in pages : pg.name = file_name}
  ELSE {NoPage}

InitPush ==
  /\ pattern = NoPattern
  /\ language = LANGUAGE_EN
  /\ curdir = <<"/", "p">>
  /\ source_name = NoName
  /\ cwd = <<"/", "p">>
  /\ pushResult = Unset
  /\ pullResult = Unset
  /\ pullAgain = Unset
  /\ matchResult = Unset
  /\ ContentIdle
  /\ WalkIdle
  /\ FindIdle
  /\ PushIdle

\* the body of the loop for one file: the page is looked up by unique_name;
\* update_file writes the local file into the page found, upload_file adds
\* a page named unique_name
PushFile ==
  /\ Len(pushed) < MaxPushed
  /\ \E file \in PushFiles, update \in BOOLEAN :
       LET path      == validate_path(curdir, file, language, cwd)
           file_name == unique_name(path)
       IN  \E remote_file_page \in PageSearch(file_name) :
             /\ pushed' = Append(pushed, [path |-> path, file_name |-> file_name,
                                          remote_file_page |-> remote_file_page,
                                          updated |-> remote_file_page # NoPage /\ update])
             /\ pages' = IF remote_file_page # NoPage /\ update
                         THEN pages
                         ELSE pages \cup {[kind |-> "page", name |-> file_name,
                                           origin |-> path.relpath]}
  /\ UNCHANGED <<patternVars, contentVars, walkVars, findVars>>

NextPush == PushFile

SpecPush == InitPush /\ [][NextPush]_vars

(***************************************************************************)
(* Content-type resolution: the project's formats are merged in, files are *)
(* looked up.                                                              *)
(***************************************************************************)
\* the formats a project may declare
ProjectFormats ==
  { ContentType("resx", << <<"resx">> >>),
    ContentType("plaintext", << <<"txt">>, <<"text">> >>),
    ContentType("notes", << <<"txt">> >>) }

\* the ordered mappings a project may supply: distinct codes
FormatMappings ==
  {m \in SeqsUpTo(ProjectFormats, MaxOverrideLen) :
     m # <<>> /\ \A i, j \in DOMAIN m : i # j => m[i].code # m[j].code}

\* the files looked up
LookupPaths ==
  { <<"Resource", ".", "json">>,
    <<"Resource", ".", "Name", ".", "resx">>,
    <<"Resource", ".", "json", ".", "yml">>,
    <<"Resource", ".", "yml">>,
    <<"Resource", ".", "txt">>,
    <<"Resource", ".", "text">>,
    <<"Resource">>,
    <<"Resource", ".">>,
    <<"v1", ".", "json", "/", "Resource">>,
    <<"v1", ".", "0", "/", "Resource", ".", "xlf">> }

InitContent ==
  /\ PatternIdle
  /\ ContentIdle
  /\ WalkIdle
  /\ FindIdle
  /\ PushIdle

\* add_project_file_formats(formats)
AddProjectFileFormats ==
  /\ merges < MaxMerges
  /\ \E formats \in FormatMappings :
       LET r == add_project_file_formats(content_type_codes, formats)
       IN  /\ content_type_codes' = r.table
           /\ allowed_extensions' = r.index
           /\ lastFormats' = formats
  /\ merges' = merges + 1
  /\ UNCHANGED <<ctFile, path_ext, ctResult>>
  /\ UNCHANGED <<patternVars, walkVars, findVars, pushVars>>

\* upload_file: content_type_code = get_content_type_code(path)
GetContentTypeCode ==
  /\ \E p \in LookupPaths :
       /\ ctFile' = p
       /\ path_ext' = extension(TranslationFile(p, LANGUAGE_EN, <<>>))
       /\ ctResult' = get_content_type_code(TranslationFile(p, LANGUAGE_EN, <<>>),
                                            allowed_extensions)
  /\ UNCHANGED <<content_type_codes, allowed_extensions, merges, lastFormats>>
  /\ UNCHANGED <<patternVars, walkVars, findVars, pushVars>>

NextContent == AddProjectFileFormats \/ GetContentTypeCode

SpecContent == InitContent /\ [][NextContent]_vars

(***************************************************************************)
(* File discovery: files_in_project(curpath), one iteration of its loop    *)
(* over os.walk(curpath, followlinks=True) per step.                       *)
(***************************************************************************)
InitWalk ==
  /\ PatternIdle
  /\ ContentIdle
  /\ fs \in FileSystems
  /\ stack = <<"root">>
  /\ visited = {}
  /\ listed = [d \in Dirs |-> 0]
  /\ yieldCount = [f \in Files |-> 0]
  /\ FindIdle
  /\ PushIdle

\* root_realpath in visited: del dirs[:]; continue
WalkPrune ==
  /\ stack # <<>>
  /\ AlreadyVisited(Head(stack), visited)
  /\ stack' = Tail(stack)
  /\ UNCHANGED <<fs, visited, listed, yieldCount>>
  /\ UNCHANGED <<patternVars, contentVars, findVars, pushVars>>

\* otherwise: yield the real path of every file entry, add root_realpath to
\* visited, remove from dirs the entries whose real path is visited; os.walk
\* then descends into the entries left, in their order
WalkVisit ==
  /\ stack # <<>>
  /\ ~AlreadyVisited(Head(stack), visited)
  /\ LET root == Head(stack)
     IN  /\ yieldCount' =
              [f \in Files |->
                 yieldCount[f] + Cardinality({e \in FileEntries(fs, root) : e.to = f})]
         /\ listed' = [listed EXCEPT ![root] = @ + 1]
         /\ visited' = visited \cup {root}
         /\ \E dirs \in Orderings(DirEntries(fs, root)) :
              LET kept == SelectSeq(dirs, LAMBDA e : e.to \notin visited')
              IN  stack' = [i \in 1..Len(kept) |-> kept[i].to] \o Tail(stack)
  /\ UNCHANGED fs
  /\ UNCHANGED <<patternVars, contentVars, findVars, pushVars>>

NextWalk == WalkPrune \/ WalkVisit

SpecWalk == InitWalk /\ [][NextWalk]_vars

\* the caller consumes the generator until it is exhausted
SpecWalkFair == SpecWalk /\ WF_vars(NextWalk)

(***************************************************************************)
(* find_files_by_pattern(curpath, pattern): one iteration of its loop over *)
(* files_in_project(curpath, return_absolute_path=False) per step.  The    *)
(* walk hands over any normalised relative path.                           *)
(***************************************************************************)
FindAtoms == {"a", "*", "/", language_code, language_lang_code}

FindPatterns == SeqsUpTo(FindAtoms, MaxFindPatLen)

\* language tokens found in file names: known to the registry, and unknown
FileCodes == {<<"f","r","-","f","r">>, <<"z","z","-","z","z">>}
FileLangs == {<<"f","r">>, <<"z","z">>}

\* the paths of the tree relative to curpath: one or two parts, each a
\* letter, a star, a separator or a language token; file names may hold any
\* character but "/", a newline included
WalkedPaths ==
  LET plain == {p \in {Replace(Replace(q, language_code, c), language_lang_code, l) :
                         q \in SeqsUpTo(FindAtoms, 2), c \in FileCodes, l \in FileLangs} :
                  /\ p # <<>>
                  /\ \A x \in Range(Split(p, Sep)) : x # <<>>}
  IN  plain \cup {p \o <<"\n">> : p \in plain}

\* the language strings of a match, in the order of LanguagePatternVariables.all
LangStrings(lang_map) ==
  LET present == SelectSeq(LanguagePatternVariables_all,
                           LAMBDA v : \E g \in DOMAIN lang_map : v = "<" \o g \o ">")
  IN  [i \in DOMAIN present |->
         lang_map[CHOOSE g \in DOMAIN lang_map : present[i] = "<" \o g \o ">"]]

\* a loop that tries the first language string only
FirstNormalized_first(strs) ==
  IF strs = <<>> THEN PyStr(<<>>)
  ELSE LET l == normalize_language(PyStr(Head(strs)))
       IN  IF l.kind = "raise" THEN PyStr(<<>>) ELSE l

\* lang = ''; then the first language string that normalize_language accepts
RECURSIVE FirstNormalized(_)
FirstNormalized(strs) ==
  IF strs = <<>> THEN PyStr(<<>>)
  ELSE LET l == normalize_language(PyStr(Head(strs)))
       IN  IF l.kind = "raise" THEN FirstNormalized(Tail(strs)) ELSE l

\* the body of the loop for one path: what is yielded, and whether a
\* warning is logged
find_step(dir, re, path, wd) ==
  LET match == Match(re, path)
  IN  IF ~match.matched THEN [yields |-> <<>>, warns |-> 0]
      ELSE LET lang == FirstNormalized(LangStrings(match.groupdict))
               file == validate_path(dir, path, lang, wd)
           IN  IF file.kind = "raise"
               THEN [yields |-> <<PyStr(path)>>, warns |-> 1]
               ELSE [yields |-> <<file>>, warns |-> 0]

InitFind ==
  /\ pattern \in FindPatterns
  /\ language = NoLanguage
  /\ curdir = <<"/", "p">>
  /\ cwd \in Cwds
  /\ source_name = NoName
  /\ pushResult = Unset
  /\ pullResult = Unset
  /\ pullAgain = Unset
  /\ matchResult = Unset
  /\ ContentIdle
  /\ WalkIdle
  /\ FindIdle
  /\ PushIdle

\* the walk hands over a path that the pattern does not match
FindNoMatch ==
  /\ pushResult.kind = "regex"
  /\ walked < MaxWalked
  /\ \E path \in WalkedPaths :
       /\ ~Match(pushResult.re, path).matched
       /\ found' = found \o find_step(curdir, pushResult.re, path, cwd).yields
       /\ logged' = logged + find_step(curdir, pushResult.re, path, cwd).warns
  /\ walked' = walked + 1
  /\ UNCHANGED matches
  /\ UNCHANGED <<patternVars, contentVars, walkVars, pushVars>>

\* the walk hands over a path that the pattern matches
FindMatch ==
  /\ pushResult.kind = "regex"
  /\ walked < MaxWalked
  /\ \E path \in WalkedPaths :
       /\ Match(pushResult.re, path).matched
       /\ found' = found \o find_step(curdir, pushResult.re, path, cwd).yields
       /\ logged' = logged + find_step(curdir, pushResult.re, path, cwd).warns
       /\ matches' = Append(matches, [path |-> path,
                                      lang_map |-> Match(pushResult.re, path).groupdict])
  /\ walked' = walked + 1
  /\ UNCHANGED <<patternVars, contentVars, walkVars, pushVars>>

NextFind == ValidatePushPattern \/ FindNoMatch \/ FindMatch

SpecFind == InitFind /\ [][NextFind]_vars

(***************************************************************************)
(* Properties of the pattern engine.                                       *)
(***************************************************************************)
\* the value a placeholder stands for, for a language
ValueOf(a, l) ==
  CASE a = "<language_code>"        -> l.code
    [] a = "<language_lang_code>"   -> l.lang
    [] a = "<language_name>"        -> l.name
    [] a = "<language_name_cap>"    -> Capitalize(l.name)
    [] a = "<language_name_allcap>" -> Upper(l.name)
    [] OTHER                        -> <<a>>

\* the pattern with every placeholder occurrence replaced by its value and
\* every other atom kept
RECURSIVE Substituted(_, _)
Substituted(p, l) ==
  IF p = <<>> THEN <<>> ELSE ValueOf(Head(p), l) \o Substituted(Tail(p), l)

HasNoneOf(p, toks) == \A i \in DOMAIN p : p[i] \notin toks

PushTokens == {"<language_code>", "<language_lang_code>"}

PullTokens ==
  {"<language_code>", "<language_name>", "<language_name_cap>",
   "<language_name_allcap>", "<language_lang_code>"}

\* a relative path with no empty, "." or ".." component
IsNormalRelative(s) ==
  /\ s # <<>>
  /\ \A c \in Range(Split(s, "/")) : c # <<>> /\ c # <<".">> /\ c # <<".", ".">>

\* curdir names the working directory of the process
CurdirIsCwd == curdir = <<>> \/ curdir = cwd

C2_PullPatternRejected ==
  (pullResult # Unset /\ pattern # NoPattern /\ HasNoneOf(pattern, PullTokens))
    => pullResult = Raise("PatternNotValid")

C2_Witness ==
  /\ pattern = <<>>
  /\ language = NoLanguage
  /\ pullResult = Raise("PatternNotValid")

\* C3 (as stated): for every valid pull pattern and language the returned
\* path is the pattern with the placeholders replaced and everything else
\* unchanged.
C3_SubstitutedVerbatim ==
  (/\ pullResult # Unset
   /\ pattern # NoPattern
   /\ ~HasNoneOf(pattern, PullTokens)
   /\ language.kind = "Language")
    => (/\ pullResult.kind = "TranslationFile"
        /\ pullResult.relpath = Substituted(pattern, language))

\* C3 (amended): for every valid pull pattern that does not end with
\* <extension>, and every language, the returned path is the substituted
\* pattern made relative to curdir by os.path.relpath; it is the substituted
\* pattern itself when that is a normalised relative path and curdir is the
\* working directory.
C3_SubstitutedRelative ==
  (/\ pullResult # Unset
   /\ pattern # NoPattern
   /\ ~HasNoneOf(pattern, PullTokens)
   /\ ~EndsWith(pattern, "<extension>")
   /\ language.kind = "Language")
    => (/\ pullResult.kind = "TranslationFile"
        /\ pullResult.relpath = RelPath(Substituted(pattern, language), curdir, cwd)
        /\ (IsNormalRelative(Substituted(pattern, language)) /\ CurdirIsCwd)
             => pullResult.relpath = Substituted(pattern, language))

C3_Witness ==
  /\ pattern = <<"<language_name_cap>", "/", "<language_name_cap>">>
  /\ language = LANGUAGE_FR
  /\ CurdirIsCwd
  /\ pullResult.kind = "TranslationFile"
  /\ pullResult.relpath =
       <<"F","r","e","n","c","h"," ","-"," ","f","r","a","n","c","e", "/",
         "F","r","e","n","c","h"," ","-"," ","f","r","a","n","c","e">>

\* the groups a match of the generated path must capture
GroupsEqualLanguage ==
  LET d == matchResult.groupdict
  IN  /\ DOMAIN d = {g \in {"language_code", "language_lang_code"} :
                       \E i \in DOMAIN pattern : pattern[i] = "<" \o g \o ">"}
      /\ "language_code" \in DOMAIN d => d["language_code"] = language.code
      /\ "language_lang_code" \in DOMAIN d => d["language_lang_code"] = language.lang

\* C4 (as stated): for every valid push pattern and every language, the
\* generated path is matched by the compiled pattern and the groups are the
\* language's code and short code.
C4_RoundTripEveryPattern ==
  (/\ pattern # NoPattern
   /\ ~HasNoneOf(pattern, PushTokens)
   /\ language.kind = "Language"
   /\ pushResult # Unset
   /\ pullResult # Unset)
    => (/\ pushResult.kind = "regex"
        /\ pullResult.kind = "TranslationFile"
        /\ matchResult # Unset => (matchResult.matched /\ GroupsEqualLanguage))

\* C4 (amended): the round trip holds for the push patterns that compile
\* (each of the two placeholders at most once), contain no name placeholder
\* and do not end with <extension>, and whose substituted path is a
\* normalised relative path, when curdir is the working directory.
C4_RoundTrip ==
  (/\ matchResult # Unset
   /\ HasNoneOf(pattern, {"<language_name>", "<language_name_cap>", "<language_name_allcap>"})
   /\ ~EndsWith(pattern, "<extension>")
   /\ IsNormalRelative(Substituted(pattern, language))
   /\ CurdirIsCwd)
    => (matchResult.matched /\ GroupsEqualLanguage)

C4_Witness ==
  /\ pattern = <<"<language_lang_code>", "/", "<language_code>">>
  /\ language = LANGUAGE_EN
  /\ matchResult # Unset
  /\ matchResult.matched
  /\ matchResult.groupdict["language_code"] = <<"e","n","-","u","s">>
  /\ matchResult.groupdict["language_lang_code"] = <<"e","n">>

(***************************************************************************)
(* Properties of content-type resolution.                                  *)
(***************************************************************************)
\* the base name of a path: what follows its last "/"
NameOf(path) ==
  CHOOSE n \in {SubSeq(path, k, Len(path)) : k \in 1..(Len(path) + 1)} :
    /\ "/" \notin Range(n)
    /\ Len(n) < Len(path) => path[Len(path) - Len(n)] = "/"

HasDot(name) == "." \in Range(name)

\* what follows the first dot of a name that has a dot
AfterFirstDot(name) ==
  CHOOSE e \in {SubSeq(name, k + 1, Len(name)) : k \in DOMAIN name} :
    LET k == Len(name) - Len(e)
    IN  name[k] = "." /\ \A j \in 1..(k - 1) : name[j] # "."

\* a step that is a content-type lookup
IsLookup == ctFile' # ctFile \/ ctResult' # ctResult

LastComponent(name) ==
  CHOOSE e \in {SubSeq(name, k, Len(name)) : k \in 1..(Len(name) + 1)} :
    /\ "." \notin Range(e)
    /\ Len(e) < Len(name) => name[Len(name) - Len(e)] = "."

\* C12: TranslationFile.extension is the last dot-separated component of the
\* base name: 'Resource.Name.resx' gives 'resx', 'Resource.json' gives
\* 'json', a name of more components, 'Resource.json.yml', gives 'yml'.
C12_ExtensionLastComponent ==
  (ctFile # <<>> /\ HasDot(NameOf(ctFile))) => path_ext = LastComponent(NameOf(ctFile))

\* the code of the last item of a table that claims an extension
LastClaim(table, e) ==
  LET claims == {i \in DOMAIN table : e \in Range(table[i].extensions)}
  IN  table[CHOOSE i \in claims : \A j \in claims : j <= i].code

ExtensionsOf(table) == UNION {Range(table[i].extensions) : i \in DOMAIN table}

\* C9: in the index derived from CONTENT_TYPE_CODES an extension claimed by
\* several content types maps to the one declared last (xliff, xlf ->
\* XLIFF1.2; yml, yaml -> YAMLi18n), and every extension of the table is a key.
C9_LaterTypeWins ==
  merges = 0 =>
    /\ allowed_extensions[<<"xliff">>] = "XLIFF1.2"
    /\ allowed_extensions[<<"xlf">>] = "XLIFF1.2"
    /\ allowed_extensions[<<"yml">>] = "YAMLi18n"
    /\ allowed_extensions[<<"yaml">>] = "YAMLi18n"
    /\ DOMAIN allowed_extensions = ExtensionsOf(CONTENT_TYPE_CODES)
    /\ \A e \in ExtensionsOf(CONTENT_TYPE_CODES) :
         allowed_extensions[e] = LastClaim(CONTENT_TYPE_CODES, e)

C9_Witness ==
  /\ merges = 0
  /\ ctFile = <<"v1", ".", "0", "/", "Resource", ".", "xlf">>
  /\ ctResult = [kind |-> "code", code |-> "XLIFF1.2"]

RECURSIVE ReachableFrom(_, _)
ReachableFrom(tree, S) ==
  LET next == S \cup {d \in Dirs \ {"root"} : tree.parent[d] \in S}
                \cup {l[2] : l \in {l \in tree.dirlinks : l[1] \in S}}
  IN  IF next = S THEN S ELSE ReachableFrom(tree, next)

ReachableDirs(tree) == ReachableFrom(tree, {"root"})

\* the entries of reachable real directories that resolve to the file f:
\* the file itself, and the symlinks to it
EntriesOf(tree, f) ==
  {<<d, "file">> : d \in {d \in ReachableDirs(tree) : tree.fileloc[f] = d}}
    \cup {<<d, "link">> : d \in {d \in ReachableDirs(tree) : <<d, f>> \in tree.filelinks}}

ReachableFiles(tree) == {f \in Files : EntriesOf(tree, f) # {}}

WalkDone == stack = <<>>

\* C6: files_in_project terminates on every tree, symlink cycles included:
\* a directory whose real path is already visited is not listed again and
\* nothing below it is walked, so every real directory is listed at most once.
C6_WalkTerminates ==
  /\ <>WalkDone
  /\ [](\A d \in Dirs : listed[d] <= 1)
  /\ [][(stack # <<>> /\ Head(stack) \in visited)
          => (yieldCount' = yieldCount /\ listed' = listed /\ stack' = Tail(stack))]_vars

C6_Witness ==
  /\ WalkDone
  /\ fs.parent["a"] = "root"
  /\ fs.dirlinks = {<<"root", "a">>, <<"a", "root">>}
  /\ listed["root"] = 1
  /\ listed["a"] = 1

\* C7 (as stated): in a complete walk every real file reachable from the
\* root is yielded exactly once, whatever symlinks the tree contains.
C7_EachFileOnce ==
  WalkDone => \A f \in ReachableFiles(fs) : yieldCount[f] = 1

\* C7 (amended): in a complete walk every real file is yielded once for
\* each entry (the file, or a symlink to the file) that resolves to it in a
\* real directory reachable from the root: a reachable file is never
\* omitted, an unreachable one never yielded, and directory symlinks never
\* repeat a file; a file that has a single such entry is yielded once.
C7_EachEntryOnce ==
  WalkDone =>
    /\ \A f \in Files : yieldCount[f] = Cardinality(EntriesOf(fs, f))
    /\ \A f \in ReachableFiles(fs) : yieldCount[f] >= 1
    /\ \A f \in Files :
         (\A d \in Dirs : <<d, f>> \notin fs.filelinks /\ f \in ReachableFiles(fs))
           => yieldCount[f] = 1

C7_Witness ==
  /\ WalkDone
  /\ fs.dirlinks = {<<"root", "a">>, <<"a", "root">>}
  /\ fs.fileloc["f"] = "a"
  /\ fs.filelinks = {<<"root", "f">>}
  /\ yieldCount["f"] = 2
  /\ yieldCount["g"] = 1

(***************************************************************************)
(* Properties of find_files_by_pattern.                                    *)
(***************************************************************************)
\* C5: a file whose path matches the pattern but whose language tokens
\* cannot be normalized is logged and skipped: every item yielded is a
\* TranslationFile with a resolved language.
C5_UnresolvedSkipped ==
  \A i \in DOMAIN found :
    found[i].kind = "TranslationFile" /\ found[i].lang.kind = "Language"

\* C13: validate_push_pattern accepts glob-style push patterns that contain
\* no language placeholder ('config/*'): it does not raise PatternNotValid.
C13_GlobPatternAccepted ==
  (pushResult # Unset /\ "*" \in Range(pattern) /\ HasNoneOf(pattern, PushTokens))
    => pushResult # Raise("PatternNotValid")

\* the contiguous parts of a path, the empty one included
PartsOf(path) ==
  {SubSeq(path, i, j) : i \in 1..(Len(path) + 1), j \in 0..Len(path)}

\* two word characters, a dash, two word characters
IsCodeShaped(c) ==
  /\ Len(c) = 5
  /\ c[3] = "-"
  /\ \A i \in {1, 2, 4, 5} : IsWord(c[i])

\* the pattern matches the path from its first to its last character,
\* letter case aside: some code-shaped text for <language_code> and some
\* run of word characters for <language_lang_code> turn the one into the other
FullyMatched(p, path) ==
  \E c, w \in PartsOf(path) :
    /\ language_code \in Range(p) => IsCodeShaped(c)
    /\ \A i \in DOMAIN w : IsWord(w[i])
    /\ Lower(Replace(Replace(p, language_code, c), language_lang_code, w)) = Lower(path)

\* C16: find_files_by_pattern never yields a file whose project-relative
\* path is not matched in full, from its first to its last character and
\* case-insensitively, by the pattern.
C16_OnlyFullMatches ==
  \A i \in DOMAIN found : FullyMatched(pattern, matches[i].path)

\* the fixed order of the language groups
GroupOrder ==
  <<"language_code", "language_name", "language_name_cap", "language_name_allcap",
    "language_lang_code">>

\* the values of the groups captured, in the fixed order
CapturedInOrder(lang_map) ==
  LET present == SelectSeq(GroupOrder, LAMBDA g : g \in DOMAIN lang_map)
  IN  [k \in DOMAIN present |-> lang_map[present[k]]]

Accepted(token) == normalize_language(PyStr(token)).kind = "Language"

\* C17 (as stated): the language token is the first captured group with a
\* non-empty value, in the fixed order; once an earlier group has a
\* non-empty value, a later group never determines the language of the file.
C17_FirstNonEmptyGroup ==
  \A i \in DOMAIN found :
    LET tokens   == CapturedInOrder(matches[i].lang_map)
        nonEmpty == SelectSeq(tokens, LAMBDA t : t # <<>>)
    IN  (nonEmpty # <<>> /\ found[i].kind = "TranslationFile")
          => found[i].lang = normalize_language(PyStr(Head(nonEmpty)))

\* C17 (amended): the language of the file is that of the first captured
\* group, in the fixed order, that normalize_language accepts; a group that
\* is empty or names no language is passed over and a later group is used;
\* when no group is accepted, no TranslationFile is made.
C17_FirstAcceptedGroup ==
  \A i \in DOMAIN found :
    LET tokens   == CapturedInOrder(matches[i].lang_map)
        accepted == SelectSeq(tokens, Accepted)
    IN  /\ accepted # <<>> =>
             /\ found[i].kind = "TranslationFile"
             /\ found[i].lang = normalize_language(PyStr(Head(accepted)))
        /\ accepted = <<>> => found[i].kind # "TranslationFile"

C17_Witness ==
  /\ pattern = <<"<language_code>", "<language_lang_code>">>
  /\ Len(found) = 1
  /\ matches[1].lang_map["language_code"] = <<"z","z","-","z","z">>
  /\ matches[1].lang_map["language_lang_code"] = <<"f","r">>
  /\ found[1].kind = "TranslationFile"
  /\ found[1].lang = LANGUAGE_FR

(***************************************************************************)
(* Further properties of the pattern engine.                               *)
(***************************************************************************)
\* the pattern that is substituted: the default one when none is given
EffectivePattern == IF pattern = NoPattern THEN DEFAULT_PATTERN ELSE pattern

\* the pattern with every language placeholder replaced by its value and
\* every <extension> replaced by ext
RECURSIVE SubstitutedWith(_, _, _)
SubstitutedWith(p, l, ext) ==
  IF p = <<>> THEN <<>>
  ELSE (IF Head(p) = "<extension>" THEN ext ELSE ValueOf(Head(p), l))
         \o SubstitutedWith(Tail(p), l, ext)

\* what follows the last dot of a name, nothing when it has no dot
AfterLastDot(name) == IF HasDot(name) THEN LastComponent(name) ELSE <<>>

\* the last dot of a name and what follows it; nothing when the name has no
\* dot, or none after its first character that is not a dot
DotExtension(name) ==
  LET dots == {k \in DOMAIN name : name[k] = "."}
  IN  IF dots = {} THEN <<>>
      ELSE LET k == CHOOSE d \in dots : \A e \in dots : e <= d
           IN  IF \E j \in 1..(k - 1) : name[j] # "."
               THEN SubSeq(name, k, Len(name))
               ELSE <<>>

\* a call of create_target_path_by_pattern that got past the validation of
\* the pattern, with a language
IsGenerated ==
  /\ pullResult # Unset
  /\ language.kind = "Language"
  /\ pattern # NoPattern => ~HasNoneOf(pattern, PullTokens)

C18_TwoOutcomes ==
  pushResult # Unset =>
    IF HasNoneOf(pattern, PushTokens)
    THEN pushResult = Raise("PatternNotValid")
    ELSE pushResult.kind = "regex"

\* C15: create_target_path_by_pattern is a pure function of its arguments:
\* two calls with the same curdir, language, pattern and source name return
\* the same relative path, whatever the working directory of the process is
\* at each call.
C15_PureFunction ==
  (pullResult.kind = "TranslationFile" /\ pullAgain.kind = "TranslationFile")
    => pullAgain.relpath = pullResult.relpath

(***************************************************************************)
(* Properties of push_command.                                             *)
(***************************************************************************)
\* C19: unique_name identifies a file within a project: two files with
\* different relative paths have different unique names, so the page that
\* push_command finds by unique_name, and updates, is never the page of
\* another local file.
C19_UniqueNameIdentifies ==
  /\ \A i, j \in DOMAIN pushed :
       pushed[i].path.relpath # pushed[j].path.relpath
         => pushed[i].file_name # pushed[j].file_name
  /\ \A i \in DOMAIN pushed :
       pushed[i].remote_file_page # NoPage
         => pushed[i].remote_file_page.origin = pushed[i].path.relpath

=============================================================================
